---- MODULE Spec2Model ----
(***************************************************************************)
(* ClassSync: the timetable-to-calendar sync handler (add-events), its     *)
(* time parser, session validator and date projection, and the             *)
(* parse-timetable rate limiter.                                           *)
(*                                                                         *)
(* A JavaScript string is a sequence of one-character strings.  A JSON     *)
(* value is a record [t, v]: t is what typeof / Array.isArray tell of it   *)
(* and v is String(value), the text a RegExp or a template literal sees.   *)
(***************************************************************************)
EXTENDS Integers, Sequences, FiniteSets, TLC

VARIABLES
    \* ---- add-events POST (one request at a time, step by step)
    pc,             \* where the handler stands
    nreq,           \* requests received so far
    ip,             \* getUserIp() of the request
    token,          \* the request carries a session with an accessToken
    session,        \* what getServerSession returned ("unread" before the call)
    shape,          \* what request.json() gave ("unread" before the call)
    classes,        \* body.classes once the body is read
    idx,            \* position of the for..of loop (1-based)
    validated,      \* validateClassSession calls made for this request
    calls,          \* calendar.events.insert calls made (request bodies)
    outcomes,       \* per item: "ok", "failed" (insert), "threw", "skipped"
    events,         \* addedEvents
    failedEvents,   \* failedEvents
    status,         \* HTTP status of the response (0: none yet)
    errText,        \* the response's error text ("" on success)
    limiter,        \* RateLimiterMemory: consumed points per key
    now,            \* new Date() of the request, minutes since the epoch
    tzOff,          \* the server process's local UTC offset, minutes
    faults,         \* provider failures the environment may still produce
    sizes,          \* batch lengths the environment submits
    budget,         \* requests the environment sends in all
    \* ---- parseTime applied to one input
    timeCase, timeIn, timeOut,
    \* ---- the date projection applied to one reference instant
    dNow, dOff, dDay, dTime, dOut,
    \* ---- parse-timetable POST and its rate limiter
    clock,          \* Date.now(), milliseconds
    ticks,          \* times the clock has moved
    rateLimitMap,   \* identity -> { count, resetTime }
    inflight,       \* admitted requests still being processed
    lastReq,        \* the latest rate-limit check: who, when, the entry found, the answer
    allowedAt,      \* per identity, the times of the requests admitted
    opened,         \* per identity, the times at which a window was opened
    preq,           \* requests received so far
    deniedSince,    \* per identity, the time of the first denial since its last admission
    \* ---- one session taken through validation and the building of its event
    item,           \* the session record
    itemNow,        \* new Date() at the sync, minutes since the epoch
    validation,     \* what validateClassSession(item) gave
    dataCheck,      \* what validateClassData([item]) gave
    sanitized,      \* sanitizedCourseCode, ..Name, ..Location, ..Instructor
    itemEvent,      \* the request body handed to calendar.events.insert
    \* ---- getUserIp applied to one request's headers
    headersList,    \* header name -> value, null when the header is absent
    userIp,         \* what getUserIp returned
    \* ---- the page and its timetable editor (TimetableDisplay) in one browser
    timetableData,  \* page state: null, or the list of sessions shown
    localStorage,   \* the item 'timetableData': null, or the saved JSON text
    editingClass,   \* `${day}-${index}` of the card being edited, or null
    editingData,    \* the copy being edited, or null
    validationErrors, \* the fields validateClassData found fault with
    dateParses,     \* this engine's Date reads `2000-01-01 ${start_time}`
    clicks          \* user actions taken so far

syncVars == <<pc, nreq, ip, token, session, shape, classes, idx, validated, calls, outcomes,
              events, failedEvents, status, errText, limiter, now, tzOff, faults, sizes,
              budget>>
timeVars == <<timeCase, timeIn, timeOut>>
dateVars == <<dNow, dOff, dDay, dTime, dOut>>
rateVars == <<clock, ticks, rateLimitMap, inflight, lastReq, allowedAt, opened, preq,
              deniedSince>>
itemVars == <<item, itemNow, validation, dataCheck, sanitized, itemEvent>>
ipVars == <<headersList, userIp>>
editVars == <<timetableData, localStorage, editingClass, editingData, validationErrors,
              dateParses, clicks>>
vars == <<syncVars, timeVars, dateVars, rateVars, itemVars, ipVars, editVars>>

----------------------------------------------------------------------------
(* JavaScript values and strings *)

Digits == <<"0", "1", "2", "3", "4", "5", "6", "7", "8", "9">>

IsDigit(c) == \E i \in 1..10 : Digits[i] = c

DigitVal(c) == (CHOOSE i \in 1..10 : Digits[i] = c) - 1

\* Number.NaN, kept apart from every number a time string can hold
NaN == 0 - 1

Str(s) == [t |-> "string", v |-> s]
Undefined == [t |-> "undefined", v |-> <<"u", "n", "d", "e", "f", "i", "n", "e", "d">>]
Null == [t |-> "null", v |-> <<"n", "u", "l", "l">>]
\* an array of one string: String([s]) is s
Arr(s) == [t |-> "array", v |-> s]
Num(s) == [t |-> "number", v |-> s]

\* !x
Falsy(x) ==
    \/ x.t \in {"undefined", "null"}
    \/ x.t = "string" /\ x.v = <<>>
    \/ x.t = "number" /\ x.v = <<"0">>

IsString(x) == x.t = "string"

IsSpace(c) == c = " "

UpperCase == <<"A", "B", "C", "D", "E", "F", "G", "H", "I", "J", "K", "L", "M",
               "N", "O", "P", "Q", "R", "S", "T", "U", "V", "W", "X", "Y", "Z">>
LowerCase == <<"a", "b", "c", "d", "e", "f", "g", "h", "i", "j", "k", "l", "m",
               "n", "o", "p", "q", "r", "s", "t", "u", "v", "w", "x", "y", "z">>

Lower(c) ==
    IF \E i \in 1..26 : UpperCase[i] = c
    THEN LowerCase[CHOOSE i \in 1..26 : UpperCase[i] = c]
    ELSE c

ToLowerCase(s) == [i \in 1..Len(s) |-> Lower(s[i])]

\* String.prototype.trim
Trim(s) ==
    LET keep == {i \in 1..Len(s) : ~IsSpace(s[i])}
    IN IF keep = {} THEN <<>>
       ELSE LET lo == CHOOSE i \in keep : \A j \in keep : i <= j
                hi == CHOOSE i \in keep : \A j \in keep : i >= j
            IN SubSeq(s, lo, hi)

\* String.prototype.includes
Includes(s, sub) ==
    \E i \in 1..(Len(s) - Len(sub) + 1) : SubSeq(s, i, i + Len(sub) - 1) = sub

\* String.prototype.split(c) for a one-character separator
RECURSIVE SplitOn(_, _)
SplitOn(s, c) ==
    LET at == {i \in 1..Len(s) : s[i] = c}
    IN IF at = {} THEN <<s>>
       ELSE LET i == CHOOSE k \in at : \A j \in at : k <= j
            IN <<SubSeq(s, 1, i - 1)>> \o SplitOn(SubSeq(s, i + 1, Len(s)), c)

\* the decimal value of a string of digits
RECURSIVE DecVal(_)
DecVal(s) ==
    IF s = <<>> THEN 0
    ELSE 10 * DecVal(SubSeq(s, 1, Len(s) - 1)) + DigitVal(s[Len(s)])

\* Number(s) for a string: surrounding white space is dropped, the empty string
\* is 0, and anything that is not a decimal numeral is NaN
ToNumber(s) ==
    LET t == Trim(s)
    IN IF t = <<>> THEN 0
       ELSE IF \A i \in 1..Len(t) : IsDigit(t[i]) THEN DecVal(t)
       ELSE NaN

\* element i of an array produced by split(':').map(Number); a missing element is
\* undefined, for which isNaN is true
NumAt(parts, i) == IF i <= Len(parts) THEN ToNumber(parts[i]) ELSE NaN

----------------------------------------------------------------------------
(* Time Parser *)

MaxHour12 == 12
MaxHour24 == 23
MaxMinute == 59

AM == <<"a", "m">>
PM == <<"p", "m">>

\* (0?[1-9]|1[0-2])
Hour12Part(h) ==
    \/ Len(h) = 1 /\ IsDigit(h[1]) /\ h[1] # "0"
    \/ Len(h) = 2 /\ h[1] = "0" /\ IsDigit(h[2]) /\ h[2] # "0"
    \/ Len(h) = 2 /\ h[1] = "1" /\ h[2] \in {"0", "1", "2"}

\* (0?[0-9]|1[0-9]|2[0-3])
Hour24Part(h) ==
    \/ Len(h) = 1 /\ IsDigit(h[1])
    \/ Len(h) = 2 /\ h[1] \in {"0", "1"} /\ IsDigit(h[2])
    \/ Len(h) = 2 /\ h[1] = "2" /\ h[2] \in {"0", "1", "2", "3"}

\* :[0-5][0-9] at position i of s
MinutePart(s, i) ==
    /\ Len(s) >= i + 2
    /\ s[i] = ":"
    /\ s[i + 1] \in {"0", "1", "2", "3", "4", "5"}
    /\ IsDigit(s[i + 2])

\* \s?(AM|PM)?$ with the i flag
MeridiemTail(r) ==
    \/ r = <<>>
    \/ Len(r) = 1 /\ IsSpace(r[1])
    \/ ToLowerCase(r) \in {AM, PM}
    \/ Len(r) = 3 /\ IsSpace(r[1]) /\ ToLowerCase(SubSeq(r, 2, 3)) \in {AM, PM}

\* timeRegex.test(timeStr): the argument is converted to a string first
validateTimeFormat(timeStr) ==
    LET s == timeStr.v
    IN \E hl \in {1, 2} :
          /\ Len(s) >= hl
          /\ MinutePart(s, hl + 1)
          /\ \/ /\ Hour12Part(SubSeq(s, 1, hl))
                /\ MeridiemTail(SubSeq(s, hl + 4, Len(s)))
             \/ /\ Hour24Part(SubSeq(s, 1, hl))
                /\ Len(s) = hl + 3

Ret(h, m, ok) == [kind |-> "return", hours |-> h, minutes |-> m, isValid |-> ok]
Invalid == Ret(0, 0, FALSE)
\* timeStr.toLowerCase is not a function
Throws == [kind |-> "throw", error |-> "TypeError"]

\* time.split(/(am|pm)/): the text before the first marker, and the marker
MeridiemAt(time) ==
    LET at == {i \in 1..(Len(time) - 1) : SubSeq(time, i, i + 1) \in {AM, PM}}
    IN CHOOSE i \in at : \A j \in at : i <= j

\* a slip: 12 AM is not taken to midnight
ParseHour12_NoMidnight(h, period) ==
    IF period = PM /\ h # 12 THEN h + 12 ELSE h

ParseHour12(h, period) ==
    IF period = PM /\ h # 12 THEN h + 12
    ELSE IF period = AM /\ h = 12 THEN 0
    ELSE h

parseTime(timeStr) ==
    IF ~validateTimeFormat(timeStr) THEN Invalid
    ELSE IF ~IsString(timeStr) THEN Throws
    ELSE
      LET time == Trim(ToLowerCase(timeStr.v))
      IN IF Includes(time, AM) \/ Includes(time, PM)
         THEN LET i == MeridiemAt(time)
                  timePart == SubSeq(time, 1, i - 1)
                  period == SubSeq(time, i, i + 1)
                  parts == SplitOn(timePart, ":")
                  h == NumAt(parts, 1)
                  m == NumAt(parts, 2)
              IN IF h = NaN \/ m = NaN \/ h < 1 \/ h > MaxHour12 \/ m < 0 \/ m > MaxMinute
                 THEN Invalid
                 ELSE Ret(ParseHour12(h, period), m, TRUE)
         ELSE LET parts == SplitOn(time, ":")
                  h == NumAt(parts, 1)
                  m == NumAt(parts, 2)
              IN IF h = NaN \/ m = NaN \/ h < 0 \/ h > MaxHour24 \/ m < 0 \/ m > MaxMinute
                 THEN Invalid
                 ELSE Ret(h, m, TRUE)

----------------------------------------------------------------------------
(* Day Projector and the event instants.  An instant is a number of minutes
   since 1970-01-01T00:00Z (a Thursday); a Date's local fields are read and set
   in the server process's time zone, here a fixed offset in minutes. *)

MinPerDay == 24 * 60

\* the timezone offset the handler subtracts: (5 * 60 + 30) minutes
KolkataOffset == 5 * 60 + 30

\* the first Monday after the epoch (1970-01-05), in days since the epoch
FirstRefDay == CHOOSE d \in 0..6 : (d + 4) % 7 = 1

validDays ==
    << <<"M", "o", "n", "d", "a", "y">>,
       <<"T", "u", "e", "s", "d", "a", "y">>,
       <<"W", "e", "d", "n", "e", "s", "d", "a", "y">>,
       <<"T", "h", "u", "r", "s", "d", "a", "y">>,
       <<"F", "r", "i", "d", "a", "y">> >>

\* dayMap[day]: 1..5, and undefined (here 0, falsy as well) for any other key
dayMap(day) ==
    IF \E i \in 1..5 : validDays[i] = day
    THEN CHOOSE i \in 1..5 : validDays[i] = day
    ELSE 0

\* the local calendar day (days since the epoch) and minute of the day of t
LocalDay(t, off) == (t + off) \div MinPerDay
LocalMinute(t, off) == (t + off) % MinPerDay

\* Date.prototype.getDay: 0 is Sunday
getDay(t, off) == (LocalDay(t, off) + 4) % 7

\* d.setDate(d.getDate() + n): the local date moves by n days, the local time stays
AddDays(t, n) == t + n * MinPerDay

\* d.setHours(h, m, 0, 0): the local time of day is replaced
setHours(t, off, h, m) == LocalDay(t, off) * MinPerDay + h * 60 + m - off

\* currentWeekStart.setDate(now.getDate() - now.getDay() + 1)
currentWeekStart(t, off) == AddDays(t, 1 - getDay(t, off))

\* nextOccurrence.setDate(currentWeekStart.getDate() + (dayOfWeek - 1))
nextOccurrence(weekStart, dayOfWeek) == AddDays(weekStart, dayOfWeek - 1)

\* eventStart / eventEnd: setHours, then setTime(getTime() - (5 * 60 + 30) * 60 * 1000)
eventInstant(occ, off, h, m) == setHours(occ, off, h, m) - KolkataOffset

\* Date.prototype.toISOString: the UTC date and time of the instant
toISOString(t) ==
    [day |-> t \div MinPerDay, hour |-> (t % MinPerDay) \div 60, minute |-> t % 60]

----------------------------------------------------------------------------
(* Class Session Validator *)

requiredFields ==
    <<"day", "start_time", "end_time", "course_code", "course_name", "class_type",
      "location">>

Err(msg, arg) == [msg |-> msg, arg |-> arg]

\* requiredFields.forEach: one error for each field that is falsy or not a string
FieldErrors(cs) ==
    LET bad(f) == Falsy(cs[f]) \/ ~IsString(cs[f])
        one(f) == IF bad(f) THEN <<Err("Missing or invalid", f)>> ELSE <<>>
    IN one(requiredFields[1]) \o one(requiredFields[2]) \o one(requiredFields[3])
       \o one(requiredFields[4]) \o one(requiredFields[5]) \o one(requiredFields[6])
       \o one(requiredFields[7])

\* validDays.includes(x): a string equal to one of the five names
IsValidDay(x) == IsString(x) /\ \E i \in 1..5 : validDays[i] = x.v

DayErrors(cs) ==
    IF ~Falsy(cs.day) /\ ~IsValidDay(cs.day) THEN <<Err("Invalid day", cs.day.v)>> ELSE <<>>

MinuteOfDay(t) == t.hours * 60 + t.minutes

\* a slip: a session that ends the minute it starts is let through
TimeErrors_EqualAllowed(cs, startTime, endTime) ==
    (IF ~startTime.isValid THEN <<Err("Invalid start time format", cs.start_time.v)>>
     ELSE <<>>)
    \o (IF ~endTime.isValid THEN <<Err("Invalid end time format", cs.end_time.v)>>
        ELSE <<>>)
    \o (IF startTime.isValid /\ endTime.isValid
           /\ MinuteOfDay(endTime) < MinuteOfDay(startTime)
        THEN <<Err("End time must be after start time", <<>>)>>
        ELSE <<>>)

TimeErrors(cs, startTime, endTime) ==
    (IF ~startTime.isValid THEN <<Err("Invalid start time format", cs.start_time.v)>>
     ELSE <<>>)
    \o (IF ~endTime.isValid THEN <<Err("Invalid end time format", cs.end_time.v)>>
        ELSE <<>>)
    \o (IF startTime.isValid /\ endTime.isValid
           /\ MinuteOfDay(endTime) <= MinuteOfDay(startTime)
        THEN <<Err("End time must be after start time", <<>>)>>
        ELSE <<>>)

\* the result, or the TypeError parseTime throws out of it
validateClassSession(cs) ==
    IF cs.t # "object"
    THEN [kind |-> "return", isValid |-> FALSE,
          errors |-> <<Err("Invalid class session object", <<>>)>>]
    ELSE LET startTime == parseTime(cs.start_time)
             endTime == parseTime(cs.end_time)
         IN IF startTime.kind = "throw" \/ endTime.kind = "throw" THEN Throws
            ELSE LET errors == FieldErrors(cs) \o DayErrors(cs)
                               \o TimeErrors(cs, startTime, endTime)
                 IN [kind |-> "return", isValid |-> errors = <<>>, errors |-> errors]

----------------------------------------------------------------------------
(* Event Builder *)

\* input.trim().replace(/[<>]/g, ''); a value that is no string has no trim
sanitizeString(input) ==
    IF ~IsString(input) THEN Throws
    ELSE [kind |-> "return",
          value |-> SelectSeq(Trim(input.v), LAMBDA c : c \notin {"<", ">"})]

getColorId(classType) ==
    LET type == ToLowerCase(classType.v)
    IN IF Includes(type, <<"l", "e", "c", "t", "u", "r", "e">>) THEN "1"
       ELSE IF Includes(type, <<"t", "u", "t", "o", "r", "i", "a", "l">>) THEN "2"
       ELSE IF Includes(type, <<"l", "a", "b">>)
               \/ Includes(type, <<"l", "a", "b", "o", "r", "a", "t", "o", "r", "y">>)
            THEN "3"
       ELSE "4"

ClassTypeLabel == <<"C", "l", "a", "s", "s", " ", "T", "y", "p", "e", ":", " ">>
InstructorLabel == <<"\n", "I", "n", "s", "t", "r", "u", "c", "t", "o", "r", ":", " ">>

\* the event of one validated session; a TypeError when the instructor is a truthy
\* value that is not a string
BuildEvent(cs, weekStart, off) ==
    LET occ == nextOccurrence(weekStart, dayMap(cs.day.v))
        startTime == parseTime(cs.start_time)
        endTime == parseTime(cs.end_time)
        code == sanitizeString(cs.course_code)
        name == sanitizeString(cs.course_name)
        location == sanitizeString(cs.location)
        instructor == sanitizeString(IF Falsy(cs.instructor) THEN Str(<<>>)
                                     ELSE cs.instructor)
    IN IF instructor.kind = "throw" THEN Throws
       ELSE [kind |-> "return",
             summary |-> code.value \o <<" ", "-", " ">> \o name.value,
             description |-> ClassTypeLabel \o cs.class_type.v \o InstructorLabel
                             \o instructor.value,
             location |-> location.value,
             start |-> [dateTime |-> toISOString(eventInstant(occ, off, startTime.hours,
                                                              startTime.minutes)),
                        timeZone |-> "Asia/Kolkata"],
             end |-> [dateTime |-> toISOString(eventInstant(occ, off, endTime.hours,
                                                            endTime.minutes)),
                      timeZone |-> "Asia/Kolkata"],
             recurrence |-> <<"RRULE:FREQ=WEEKLY;UNTIL=20251130T235959Z">>,
             colorId |-> getColorId(cs.class_type)]

----------------------------------------------------------------------------
(* The variables of the parts a specification leaves alone *)

SyncIdle ==
    /\ pc = "idle" /\ nreq = 0 /\ ip = "none" /\ token = FALSE /\ session = "unread"
    /\ shape = "unread" /\ classes = <<>> /\ idx = 0 /\ validated = 0 /\ calls = <<>> /\ outcomes = <<>>
    /\ events = <<>> /\ failedEvents = <<>> /\ status = 0 /\ errText = ""
    /\ limiter = <<>> /\ now = 0 /\ tzOff = 0 /\ faults = 0 /\ sizes = {} /\ budget = 0

TimeIdle == timeCase = [form |-> "none"] /\ timeIn = Undefined /\ timeOut = [kind |-> "none"]

DateIdle == dNow = 0 /\ dOff = 0 /\ dDay = 0 /\ dTime = <<0, 0>> /\ dOut = [kind |-> "none"]

RateIdle ==
    /\ clock = 0 /\ ticks = 0 /\ rateLimitMap = <<>> /\ inflight = 0
    /\ lastReq = [kind |-> "none"] /\ allowedAt = <<>> /\ opened = <<>> /\ preq = 0
    /\ deniedSince = <<>>

ItemIdle ==
    /\ item = Null /\ itemNow = 0 /\ validation = [kind |-> "none"]
    /\ dataCheck = [kind |-> "none"] /\ sanitized = [kind |-> "none"]
    /\ itemEvent = [kind |-> "none"]

IpIdle == headersList = <<>> /\ userIp = Undefined

EditIdle ==
    /\ timetableData = Null /\ localStorage = Null /\ editingClass = Null
    /\ editingData = Null /\ validationErrors = {} /\ dateParses = FALSE /\ clicks = 0

----------------------------------------------------------------------------
(* Sync Orchestrator: POST of add-events.  Requests are taken one at a time: the
   handler shares nothing with another request but the rate limiter, which it
   reads and writes in one step. *)

\* rateLimiter: points per window, and the points one request consumes
Points == 4
Cost == 2
\* the largest batch
MaxBatch == 100

\* most requests in one run
MaxReqs == 3
\* longest batch whose items are chosen one by one
MaxLen == 2

\* the client identity getUserIp gives
Keys == {"10.0.0.1"}

Session(day, st, et, code, name, type, loc, instr) ==
    [t |-> "object", day |-> day, start_time |-> st, end_time |-> et,
     course_code |-> code, course_name |-> name, class_type |-> type,
     location |-> loc, instructor |-> instr]

T0900AM == Str(<<"9", ":", "0", "0", "A", "M">>)
T0950AM == Str(<<"9", ":", "5", "0", "A", "M">>)
T1400 == Str(<<"1", "4", ":", "0", "0">>)
T1530 == Str(<<"1", "5", ":", "3", "0">>)
Lecture == Str(<<"L", "e", "c", "t", "u", "r", "e">>)
Lab == Str(<<"L", "a", "b">>)

\* a lecture on Monday morning
ClassA ==
    Session(Str(validDays[1]), T0900AM, T0950AM, Str(<<"C", "S">>), Str(<<"D", "S">>),
            Lecture, Str(<<"R", "1">>), Str(<<"S">>))
\* a lab on Friday afternoon, 24-hour times, no instructor
ClassB ==
    Session(Str(validDays[5]), T1400, T1530, Str(<<"M", "A">>), Str(<<"L", "A">>),
            Lab, Str(<<"R", "2">>), Undefined)
\* valid for the validator, with a number as instructor
ClassNumInstructor ==
    Session(Str(validDays[3]), T0900AM, T0950AM, Str(<<"E", "E">>), Str(<<"E", "M">>),
            Lecture, Str(<<"R", "3">>), Num(<<"7">>))
\* ends before it starts
ClassBackwards ==
    Session(Str(validDays[2]), T1530, T1400, Str(<<"P", "H">>), Str(<<"Q", "M">>),
            Lecture, Str(<<"R", "4">>), Str(<<"S">>))
\* start_time is the array ["9:00AM"]
ClassArrayTime ==
    Session(Str(validDays[1]), Arr(<<"9", ":", "0", "0", "A", "M">>), T0950AM,
            Str(<<"B", "I">>), Str(<<"G", "E">>), Lecture, Str(<<"R", "5">>), Str(<<"S">>))
ClassNull == [t |-> "null"]

Samples == {ClassA, ClassB, ClassNumInstructor, ClassBackwards, ClassArrayTime}
LongSamples == {ClassA, ClassBackwards}

\* the arrays of n items a request may carry: any items for a short one, n copies
\* of one item for a long one
Batches(n) ==
    IF n <= MaxLen THEN [1..n -> Samples]
    ELSE {[i \in 1..n |-> c] : c \in LongSamples}

\* what request.json() and the destructuring of { classes } give: text that is no
\* JSON, null, a number or a string, an object without classes, an object whose
\* classes is no array, and an object holding an array
Bodies ==
    {[kind |-> k, classes |-> <<>>] :
        k \in {"not json", "null", "not an object", "no classes",
               "classes not an array"}}
    \cup {[kind |-> "array", classes |-> b] : b \in UNION {Batches(n) : n \in sizes}}

\* values thrown inside the handler's try block
RateLimiterRes == [isError |-> FALSE, mentionsRateLimiter |-> FALSE]
TypeError == [isError |-> TRUE, mentionsRateLimiter |-> FALSE]
SyntaxError == [isError |-> TRUE, mentionsRateLimiter |-> FALSE]

\* the outer catch
CatchStatus(error) == IF error.isError /\ error.mentionsRateLimiter THEN 429 ELSE 500
CatchText(error) ==
    IF error.isError /\ error.mentionsRateLimiter
    THEN "Too many requests. Please try again later."
    ELSE "Failed to add events to calendar"

\* rateLimiter.consume(ip, 2): the points are added, and the call is rejected (with
\* the limiter's result object, which is no Error) when the sum exceeds the quota
Consumed(k) == limiter[k] + Cost
Rejected(k) == Consumed(k) > Points

Respond(code, text) ==
    /\ status' = code
    /\ errText' = text
    /\ pc' = "done"

SyncInit ==
    /\ pc = "idle" /\ nreq = 0 /\ ip = "none" /\ token = FALSE /\ session = "unread"
    /\ shape = "unread" /\ classes = <<>> /\ idx = 0 /\ validated = 0 /\ calls = <<>> /\ outcomes = <<>>
    /\ events = <<>> /\ failedEvents = <<>> /\ status = 0 /\ errText = ""
    /\ limiter = [k \in Keys |-> 0]
    /\ now = 0
    /\ tzOff \in {0, KolkataOffset}

\* a request arrives: getUserIp, then rateLimiter.consume
Arrive(k, tok) ==
    /\ pc \in {"idle", "done"}
    /\ nreq < budget
    /\ nreq' = nreq + 1
    /\ ip' = k /\ token' = tok
    /\ limiter' = [limiter EXCEPT ![k] = Consumed(k)]
    /\ session' = "unread" /\ shape' = "unread" /\ classes' = <<>> /\ idx' = 0 /\ validated' = 0
    /\ calls' = <<>> /\ outcomes' = <<>> /\ events' = <<>> /\ failedEvents' = <<>>
    /\ IF Rejected(k)
       THEN Respond(CatchStatus(RateLimiterRes), CatchText(RateLimiterRes))
       ELSE pc' = "admitted" /\ status' = 0 /\ errText' = ""
    /\ UNCHANGED <<now, tzOff, faults, sizes, budget, timeVars, dateVars, rateVars, itemVars, ipVars, editVars>>

\* the rate limiter's window of a key ends; the handler sees it at its next consume
Expire(k) ==
    /\ pc \in {"idle", "done"}
    /\ limiter[k] > 0
    /\ limiter' = [limiter EXCEPT ![k] = 0]
    /\ UNCHANGED <<pc, nreq, ip, token, session, shape, classes, idx, validated, calls, outcomes,
                   events, failedEvents, status, errText, now, tzOff, faults, sizes,
                   budget, timeVars, dateVars, rateVars, itemVars, ipVars, editVars>>

\* a slip: the handler goes on whatever the session holds
Authenticate_NoCheck ==
    /\ pc = "admitted"
    /\ session' = IF token THEN "token" ELSE "null"
    /\ pc' = "authenticated"
    /\ UNCHANGED <<nreq, ip, token, shape, classes, idx, validated, calls, outcomes, events,
                   failedEvents, status, errText, limiter, now, tzOff, faults, sizes,
                   budget, timeVars, dateVars, rateVars, itemVars, ipVars, editVars>>

\* getServerSession and the accessToken check
Authenticate ==
    /\ pc = "admitted"
    /\ session' = IF token THEN "token" ELSE "null"
    /\ IF token
       THEN pc' = "authenticated" /\ UNCHANGED <<status, errText>>
       ELSE Respond(401, "Not authenticated")
    /\ UNCHANGED <<nreq, ip, token, shape, classes, idx, validated, calls, outcomes, events,
                   failedEvents, limiter, now, tzOff, faults, sizes, budget,
                   timeVars, dateVars, rateVars, itemVars, ipVars, editVars>>

\* classes.forEach(validateClassSession): the items validated before one throws
ValidatedUpTo(b) ==
    LET at == {i \in 1..Len(b) : validateClassSession(b[i]).kind = "throw"}
    IN IF at = {} THEN Len(b) ELSE CHOOSE i \in at : \A j \in at : i <= j

ValidationThrows(b) == \E i \in 1..Len(b) : validateClassSession(b[i]).kind = "throw"

\* validationErrors.length > 0
ValidationFails(b) == \E i \in 1..Len(b) : ~validateClassSession(b[i]).isValid

\* a slip: a batch of exactly 100 is turned away
TooMany_OffByOne(b) == Len(b) >= MaxBatch

\* classes.length > 100
TooMany(b) == Len(b) > MaxBatch

\* request.json(), the checks of the batch, the validation of every item, and the
\* reading of the clock
ReadBody(body, t) ==
    /\ pc = "authenticated"
    /\ shape' = body.kind
    /\ classes' = body.classes
    /\ IF body.kind = "not json"
       THEN Respond(CatchStatus(SyntaxError), CatchText(SyntaxError))
            /\ UNCHANGED <<validated, idx, now>>
       ELSE IF body.kind = "null"
       THEN Respond(CatchStatus(TypeError), CatchText(TypeError))
            /\ UNCHANGED <<validated, idx, now>>
       ELSE IF body.kind \in {"not an object", "no classes", "classes not an array"}
       THEN Respond(400, "Invalid classes data") /\ UNCHANGED <<validated, idx, now>>
       ELSE IF Len(body.classes) = 0
       THEN Respond(400, "No classes provided") /\ UNCHANGED <<validated, idx, now>>
       ELSE IF TooMany(body.classes)
       THEN Respond(400, "Too many classes. Maximum 100 allowed.")
            /\ UNCHANGED <<validated, idx, now>>
       ELSE /\ validated' = ValidatedUpTo(body.classes)
            /\ IF ValidationThrows(body.classes)
               THEN Respond(CatchStatus(TypeError), CatchText(TypeError))
                    /\ UNCHANGED <<idx, now>>
               ELSE IF ValidationFails(body.classes)
               THEN Respond(400, "Invalid class data") /\ UNCHANGED <<idx, now>>
               ELSE /\ pc' = "loop" /\ idx' = 1 /\ now' = t
                    /\ UNCHANGED <<status, errText>>
    /\ UNCHANGED <<nreq, ip, token, session, calls, outcomes, events, failedEvents,
                   limiter, tzOff, faults, sizes, budget, timeVars, dateVars, rateVars, itemVars, ipVars, editVars>>

FailedEvent(cs, reason) == [code |-> cs.course_code.v, reason |-> reason]

NextItem ==
    /\ idx' = idx + 1
    /\ pc' = "loop"

\* one turn of the for..of loop up to the insert call
LoopStep ==
    /\ pc = "loop"
    /\ idx <= Len(classes)
    /\ LET cs == classes[idx]
           event == BuildEvent(cs, currentWeekStart(now, tzOff), tzOff)
       IN IF dayMap(cs.day.v) = 0
          THEN /\ failedEvents' = Append(failedEvents, FailedEvent(cs, "Invalid day"))
               /\ outcomes' = Append(outcomes, "skipped")
               /\ NextItem /\ UNCHANGED calls
          ELSE IF ~parseTime(cs.start_time).isValid \/ ~parseTime(cs.end_time).isValid
          THEN /\ failedEvents' =
                      Append(failedEvents, FailedEvent(cs, "Invalid time format"))
               /\ outcomes' = Append(outcomes, "skipped")
               /\ NextItem /\ UNCHANGED calls
          ELSE IF event.kind = "throw"
          THEN /\ failedEvents' =
                      Append(failedEvents,
                             FailedEvent(cs, "input.trim is not a function"))
               /\ outcomes' = Append(outcomes, "threw")
               /\ NextItem /\ UNCHANGED calls
          ELSE /\ calls' = Append(calls, event)
               /\ pc' = "awaiting"
               /\ UNCHANGED <<failedEvents, outcomes, idx>>
    /\ UNCHANGED <<nreq, ip, token, session, shape, classes, validated, events, status, errText,
                   limiter, now, tzOff, faults, sizes, budget, timeVars, dateVars,
                   rateVars, itemVars, ipVars, editVars>>

\* a slip: the newest event is put in front of the earlier ones
InsertReturns_Prepend ==
    /\ pc = "awaiting"
    /\ LET event == calls[Len(calls)]
       IN events' = <<[id |-> Len(calls), summary |-> event.summary,
                      start |-> event.start.dateTime]>> \o events
    /\ outcomes' = Append(outcomes, "ok")
    /\ NextItem
    /\ UNCHANGED <<nreq, ip, token, session, shape, classes, validated, calls, failedEvents,
                   status, errText, limiter, now, tzOff, faults, sizes, budget,
                   timeVars, dateVars, rateVars, itemVars, ipVars, editVars>>

\* calendar.events.insert resolves
InsertReturns ==
    /\ pc = "awaiting"
    /\ LET event == calls[Len(calls)]
       IN events' = Append(events, [id |-> Len(calls), summary |-> event.summary,
                                    start |-> event.start.dateTime])
    /\ outcomes' = Append(outcomes, "ok")
    /\ NextItem
    /\ UNCHANGED <<nreq, ip, token, session, shape, classes, validated, calls, failedEvents,
                   status, errText, limiter, now, tzOff, faults, sizes, budget,
                   timeVars, dateVars, rateVars, itemVars, ipVars, editVars>>

\* a slip: the first provider error ends the batch
InsertThrows_Abort ==
    /\ pc = "awaiting"
    /\ faults > 0
    /\ faults' = faults - 1
    /\ failedEvents' = Append(failedEvents, FailedEvent(classes[idx], "provider error"))
    /\ outcomes' = Append(outcomes, "failed")
    /\ idx' = idx + 1
    /\ Respond(200, "")
    /\ UNCHANGED <<nreq, ip, token, session, shape, classes, validated, calls, events,
                   limiter, now, tzOff, sizes, budget, timeVars, dateVars, rateVars, itemVars, ipVars, editVars>>

\* a slip: the failed item is reported as added as well
InsertThrows_AlsoAdded ==
    /\ pc = "awaiting"
    /\ faults > 0
    /\ faults' = faults - 1
    /\ failedEvents' = Append(failedEvents, FailedEvent(classes[idx], "provider error"))
    /\ LET event == calls[Len(calls)]
       IN events' = Append(events, [id |-> Len(calls), summary |-> event.summary,
                                    start |-> event.start.dateTime])
    /\ outcomes' = Append(outcomes, "failed")
    /\ NextItem
    /\ UNCHANGED <<nreq, ip, token, session, shape, classes, validated, calls,
                   status, errText, limiter, now, tzOff, sizes, budget,
                   timeVars, dateVars, rateVars, itemVars, ipVars, editVars>>

\* calendar.events.insert rejects with an Error
InsertThrows ==
    /\ pc = "awaiting"
    /\ faults > 0
    /\ faults' = faults - 1
    /\ failedEvents' = Append(failedEvents, FailedEvent(classes[idx], "provider error"))
    /\ outcomes' = Append(outcomes, "failed")
    /\ NextItem
    /\ UNCHANGED <<nreq, ip, token, session, shape, classes, validated, calls, events,
                   status, errText, limiter, now, tzOff, sizes, budget,
                   timeVars, dateVars, rateVars, itemVars, ipVars, editVars>>

\* the loop is over: the response with success: true
Finish ==
    /\ pc = "loop"
    /\ idx > Len(classes)
    /\ Respond(200, "")
    /\ UNCHANGED <<nreq, ip, token, session, shape, classes, idx, validated, calls, outcomes,
                   events, failedEvents, limiter, now, tzOff, faults, sizes, budget,
                   timeVars, dateVars, rateVars, itemVars, ipVars, editVars>>

\* what the response carries as failedEvents: undefined when none failed
ResponseFailedEvents == IF Len(failedEvents) > 0 THEN failedEvents ELSE <<>>

\* the instant the server clock shows: a Sunday evening (Monday already in Kolkata)
RequestInstants == {(FirstRefDay + 6) * MinPerDay + 20 * 60}

SyncNext ==
    \/ \E k \in Keys, tok \in BOOLEAN : Arrive(k, tok)
    \/ \E k \in Keys : Expire(k)
    \/ Authenticate
    \/ \E body \in Bodies, t \in RequestInstants : ReadBody(body, t)
    \/ LoopStep
    \/ InsertReturns
    \/ InsertThrows
    \/ Finish

\* a few short batches of any items, every provider call free to fail
Init ==
    /\ SyncInit /\ sizes = 0..MaxLen /\ budget = MaxReqs /\ faults = MaxReqs * MaxLen
    /\ TimeIdle /\ DateIdle /\ RateIdle /\ ItemIdle /\ IpIdle /\ EditIdle

Spec == Init /\ [][SyncNext]_vars

\* one request with a batch at the size limit, the provider failing at most once
LimitInit ==
    /\ SyncInit /\ sizes = {0, MaxBatch, MaxBatch + 1} /\ budget = 1 /\ faults = 1
    /\ TimeIdle /\ DateIdle /\ RateIdle /\ ItemIdle /\ IpIdle /\ EditIdle

SpecLimit == LimitInit /\ [][SyncNext]_vars

\* a session validateClassSession returns as invalid
ReturnsInvalid(cs) ==
    LET r == validateClassSession(cs) IN r.kind = "return" /\ ~r.isValid

\* a request whose batch reached the validation of its items
ReachedValidation ==
    /\ pc = "done" /\ shape = "array"
    /\ Len(classes) > 0 /\ Len(classes) <= 100

\* C1: if at least one session of the submitted batch fails validateClassSession, the
\* whole request is rejected with status 400 and no calendar insert is made.
C1_InvalidItemRejects400 ==
    (ReachedValidation /\ \E i \in 1..validated : ReturnsInvalid(classes[i]))
        => status = 400 /\ calls = <<>>

\* `${sanitizedCourseCode} - ${sanitizedCourseName}` of a session
SummaryOf(cs) ==
    sanitizeString(cs.course_code).value \o <<" ", "-", " ">>
    \o sanitizeString(cs.course_name).value

\* C2: for a batch of N sessions that all pass validation, if the provider's insert
\* fails for exactly one item k and succeeds for every other, the response lists item
\* k by its course code in failedEvents and the other N-1 items in events; the items
\* after k are still submitted.
C2_OneProviderFailure ==
    (pc = "done" /\ status = 200) =>
        /\ Len(outcomes) = Len(classes)
        /\ \A k \in 1..Len(classes) :
              (outcomes[k] = "failed"
               /\ \A j \in 1..Len(classes) : j # k => outcomes[j] = "ok")
              => /\ Len(calls) = Len(classes)
                 /\ Len(failedEvents) = 1
                 /\ failedEvents[1].code = classes[k].course_code.v
                 /\ Len(events) = Len(classes) - 1
                 /\ \A j \in 1..Len(events) :
                       events[j].summary = SummaryOf(classes[IF j < k THEN j ELSE j + 1])

\* the first of two items failed at the provider and the second was added
C2_Witness ==
    /\ pc = "done" /\ status = 200
    /\ outcomes = <<"failed", "ok">>
    /\ Len(events) = 1 /\ events[1].summary = SummaryOf(classes[2])

\* C3 as stated: a sync request made without a valid access token always gets 401
\* and no other outcome.
C3_NoTokenAlways401 ==
    (pc = "done" /\ ~token) => status = 401

\* C3 as amended: a request without a valid access token that the rate limiter
\* admits gets 401 'Not authenticated'; for no request without a token, admitted or
\* not, is the body read, an item validated or an insert made.
C3_NoTokenAdmitted401 ==
    ~token =>
        /\ (pc = "done" /\ session # "unread")
              => status = 401 /\ errText = "Not authenticated"
        /\ pc \notin {"authenticated", "loop", "awaiting"}
        /\ shape = "unread" /\ validated = 0 /\ calls = <<>>

\* an admitted request without a token has been answered 401
C3_Witness ==
    /\ pc = "done" /\ ~token /\ session = "null" /\ status = 401

\* C4: an authenticated request whose classes array is empty or has more than 100
\* items is rejected with status 400 before any item is validated or any insert is
\* made; a batch of exactly 100 items is not rejected for its size.
C4_BatchSizeGate ==
    (session = "token" /\ shape = "array") =>
        /\ (Len(classes) = 0 \/ Len(classes) > 100)
              => pc = "done" /\ status = 400 /\ validated = 0 /\ calls = <<>>
        /\ Len(classes) = 100
              => /\ validated = 100
                 /\ errText \notin {"Too many classes. Maximum 100 allowed.",
                                    "No classes provided"}

\* a batch of 101 items has been rejected
C4_Witness ==
    /\ pc = "done" /\ session = "token" /\ Len(classes) = 101 /\ status = 400
    /\ errText = "Too many classes. Maximum 100 allowed."

\* C5: a request of an identity that has exhausted its quota (the third inside a
\* window) is answered with status 429 and no insert is made.
C5_QuotaExhausted429 ==
    (pc = "done" /\ session = "unread" /\ limiter[ip] > Points)
        => status = 429 /\ calls = <<>>

\* C15: an authenticated, non-rate-limited sync request whose body has a malformed
\* batch shape (not valid JSON, null or not an object, classes missing or not an
\* array) is answered with status 400, never with 500, and no insert is made.
C15_MalformedShape400 ==
    (pc = "done" /\ session = "token"
     /\ shape \in {"not json", "null", "not an object", "no classes",
                   "classes not an array"})
        => status = 400 /\ calls = <<>>

\* the course codes named in failedEvents
FailedCodes == {failedEvents[i].code : i \in 1..Len(failedEvents)}

\* C7: in every successful response, the number of entries in events plus the number
\* of distinct course codes named in failedEvents is at most the number of sessions
\* in the request.
C7_ResultWithinBatch ==
    (pc = "done" /\ status = 200) =>
        Len(events) + Cardinality(FailedCodes) <= Len(classes)

\* two sessions of one course have both failed
C7_Witness ==
    /\ pc = "done" /\ status = 200
    /\ Len(failedEvents) = 2 /\ Cardinality(FailedCodes) = 1

\* element j of the set S of positions, in increasing order
Nth(S, j) == CHOOSE i \in S : Cardinality({x \in S : x < i}) = j - 1

\* the positions of the sessions whose turn of the loop ended as one of kinds
Turns(kinds) == {i \in 1..Len(outcomes) : outcomes[i] \in kinds}

\* insert calls made and not yet answered
Outstanding == Len(calls) - Cardinality(Turns({"ok", "failed"}))

\* C20: within one sync batch the calendar inserts are issued strictly one after
\* another in input order (at most one insert is outstanding at any time), and the
\* events list and the failedEvents list each report their items in input order.
C20_SequentialInOrder ==
    /\ Outstanding \in {0, 1}
    /\ Outstanding = 1 <=> pc = "awaiting"
    /\ LET issued == Turns({"ok", "failed"}) \cup (IF pc = "awaiting" THEN {idx} ELSE {})
       IN /\ Len(calls) = Cardinality(issued)
          /\ \A j \in 1..Len(calls) : calls[j].summary = SummaryOf(classes[Nth(issued, j)])
    /\ Len(events) = Cardinality(Turns({"ok"}))
    /\ \A j \in 1..Len(events) :
          events[j].summary = SummaryOf(classes[Nth(Turns({"ok"}), j)])
    /\ Len(failedEvents) = Cardinality(Turns({"failed", "threw", "skipped"}))
    /\ \A j \in 1..Len(failedEvents) :
          failedEvents[j].code
              = classes[Nth(Turns({"failed", "threw", "skipped"}), j)].course_code.v

\* two different sessions have been added, the first before the second
C20_Witness ==
    /\ pc = "done" /\ status = 200 /\ outcomes = <<"ok", "ok">>
    /\ classes[1] # classes[2]
    /\ events[1].summary = SummaryOf(classes[1]) /\ events[2].summary = SummaryOf(classes[2])

\* the for..of loop has a session to take
LoopEnabled == pc = "loop" /\ idx <= Len(classes)

\* the handler runs on whenever it can, and the provider answers every insert
\* (the first conjunct is WF_vars(LoopStep) with ENABLED <<LoopStep>>_vars written
\* out as the guard of LoopStep, every branch of which changes idx or pc)
SyncFairness ==
    /\ ([]<>(~LoopEnabled) \/ []<><<LoopStep>>_vars)
    /\ WF_vars(InsertReturns \/ InsertThrows)
    /\ WF_vars(Finish)

\* two requests with short batches of any items, every provider call free to fail
LiveInit ==
    /\ SyncInit /\ sizes = 0..MaxLen /\ budget = 2 /\ faults = 2 * MaxLen
    /\ TimeIdle /\ DateIdle /\ RateIdle /\ ItemIdle /\ IpIdle /\ EditIdle

SpecLive == LiveInit /\ [][SyncNext]_vars /\ SyncFairness

\* request n has sent its response after one turn of the loop for every session
RespondedAfterAll(n) ==
    /\ pc = "done" /\ nreq = n /\ status = 200
    /\ idx = Len(classes) + 1
    /\ Len(outcomes) = Len(classes)
    /\ Len(calls) = Cardinality(Turns({"ok", "failed"}))

\* C21: when a batch has passed validation and every call to the calendar provider
\* eventually returns or throws, the response of that request is eventually sent,
\* after each of the N items has had exactly one turn of the loop.
C21_EventuallyResponds ==
    \A n \in 1..MaxReqs :
        (pc = "loop" /\ idx = 1 /\ nreq = n) ~> RespondedAfterAll(n)

\* a batch of two whose first insert was rejected has been answered
C21_Witness ==
    /\ pc = "done" /\ status = 200 /\ Len(classes) = 2
    /\ outcomes[1] = "failed" /\ Len(outcomes) = 2 /\ Len(calls) = 2

\* C24: when a batch passes validation and the provider accepts every insert it
\* receives, every session of the batch is added and failedEvents is absent.
C24_AllAcceptedAllAdded ==
    (pc = "done" /\ status = 200 /\ Turns({"failed"}) = {})
        => Len(events) = Len(classes) /\ ResponseFailedEvents = <<>>

\* C30: a sync response with success: true and status 200 has added at least one
\* event (stated here for the batches every item of which reached the provider).
C30_SuccessAddedOne ==
    (pc = "done" /\ status = 200 /\ Turns({"threw", "skipped"}) = {})
        => Len(events) >= 1

----------------------------------------------------------------------------
(* parseTime applied to one time string *)

HourStr(h) ==
    IF h < 10 THEN <<Digits[h + 1]>> ELSE <<Digits[(h \div 10) + 1], Digits[(h % 10) + 1]>>

TwoDigits(n) == <<Digits[(n \div 10) + 1], Digits[(n % 10) + 1]>>

\* AM and PM in every letter case
Markers ==
    {<<a, "M">> : a \in {"A", "P"}} \cup {<<a, "m">> : a \in {"A", "P"}}
    \cup {<<a, "M">> : a \in {"a", "p"}} \cup {<<a, "m">> : a \in {"a", "p"}}

TimeCases ==
    [form : {"h12"}, h : 1..MaxHour12, m : 0..MaxMinute, mark : Markers, pad : {FALSE}]
    \cup [form : {"h24"}, h : 0..MaxHour24, m : 0..MaxMinute, mark : {<<>>},
          pad : BOOLEAN]

\* the time string of a case: 'H:MM' + marker, or 'H:MM' / 'HH:MM'
Render(c) ==
    (IF c.pad THEN TwoDigits(c.h) ELSE HourStr(c.h)) \o <<":">> \o TwoDigits(c.m) \o c.mark

\* values that are not well-formed times
Malformed ==
    { Str(<<"1", "4", ":", "0", "0", "P", "M">>),
      Str(<<"0", ":", "3", "0", "A", "M">>),
      Str(<<"2", "4", ":", "0", "0">>),
      Str(<<"9", ":", "6", "0">>),
      Str(<<"9", "0", "0">>),
      Str(<<"x", ":", "0", "0">>),
      Str(<<"9", ":", "0", "0", "x", "m">>),
      Str(<<"1", "3", ":", "0", "0", " ">>),
      Str(<<>>),
      Undefined, Null, Num(<<"9">>),
      Arr(<<"9", ":", "0", "0", "A", "M">>),
      Arr(<<"9", "0", "0">>) }

\* well-formed times outside the two plain forms: a space before the marker, or
\* after a time without one
Spaced ==
    { Str(<<"9", ":", "0", "0", " ", "A", "M">>),
      Str(<<"1", "2", ":", "3", "0", " ", "p", "m">>),
      Str(<<"9", ":", "0", "0", " ">>) }

TimeInit ==
    /\ timeOut = [kind |-> "none"]
    /\ \/ \E c \in TimeCases : timeCase = c /\ timeIn = Str(Render(c))
       \/ \E x \in Malformed \cup Spaced : timeCase = [form |-> "other"] /\ timeIn = x

ParseTimeCall ==
    /\ timeOut.kind = "none"
    /\ timeOut' = parseTime(timeIn)
    /\ UNCHANGED <<timeCase, timeIn, syncVars, dateVars, rateVars, itemVars, ipVars, editVars>>

TimeSpecInit == TimeInit /\ SyncIdle /\ DateIdle /\ RateIdle /\ ItemIdle /\ IpIdle /\ EditIdle

SpecTime == TimeSpecInit /\ [][ParseTimeCall]_vars

\* C10: for every H in 1..12, MM in 00..59 and marker AM or PM in any letter case,
\* parseTime('H:MM' + marker) is valid with minutes MM and the 24-hour equivalent of
\* H as hours (12 AM is 0, 12 PM is 12, other PM hours are H + 12, other AM hours
\* are H); for every 24-hour string with hour 0..23 and no marker it is valid with
\* hours = the hour and minutes = MM.
C10_ParseTimeWellFormed ==
    timeOut.kind # "none" =>
        /\ timeCase.form = "h12" =>
              timeOut = Ret(IF ToLowerCase(timeCase.mark) = AM
                            THEN (IF timeCase.h = 12 THEN 0 ELSE timeCase.h)
                            ELSE (IF timeCase.h = 12 THEN 12 ELSE timeCase.h + 12),
                            timeCase.m, TRUE)
        /\ timeCase.form = "h24" => timeOut = Ret(timeCase.h, timeCase.m, TRUE)

\* 12:05 with an AM marker in mixed case has been parsed to 0:05
C10_Witness ==
    /\ timeCase.form = "h12" /\ timeCase.h = 12 /\ timeCase.m = 5
    /\ timeCase.mark = <<"a", "M">>
    /\ timeOut.kind = "return" /\ timeOut.hours = 0 /\ timeOut.minutes = 5

\* C11: for every input that is not a well-formed time (letters, a missing ':', an
\* out-of-range hour or minute, or an absent or non-string value) parseTime returns
\* isValid = false with hours = 0 and minutes = 0, and it never throws.
C11_MalformedIsInvalidNoThrow ==
    (timeOut.kind # "none" /\ timeIn \in Malformed) => timeOut = Invalid

----------------------------------------------------------------------------
(* The date projection applied to one reference instant *)

\* how many consecutive reference days are tried
MaxRefDays == 7

RefInstants ==
    {d * MinPerDay + m : d \in FirstRefDay..(FirstRefDay + MaxRefDays - 1),
                         m \in {0, 11 * 60 + 30, MinPerDay - 1}}

\* UTC, Asia/Kolkata, America/Los_Angeles (standard time)
ServerOffsets == {0, KolkataOffset, 0 - 8 * 60}

WallTimes == {<<0, 0>>, <<5, 29>>, <<9, 0>>, <<23, 59>>}

DateInit ==
    /\ dNow \in RefInstants
    /\ dOff \in ServerOffsets
    /\ dDay \in 1..5
    /\ dTime \in WallTimes
    /\ dOut = [kind |-> "none"]

ProjectCall ==
    /\ dOut.kind = "none"
    /\ LET weekStart == currentWeekStart(dNow, dOff)
           occ == nextOccurrence(weekStart, dayMap(validDays[dDay]))
       IN dOut' = [kind |-> "done",
                   weekStart |-> LocalDay(weekStart, dOff),
                   date |-> LocalDay(occ, dOff),
                   dateTime |-> toISOString(eventInstant(occ, dOff, dTime[1], dTime[2]))]
    /\ UNCHANGED <<dNow, dOff, dDay, dTime, syncVars, timeVars, rateVars, itemVars, ipVars, editVars>>

DateSpecInit == DateInit /\ SyncIdle /\ TimeIdle /\ RateIdle /\ ItemIdle /\ IpIdle /\ EditIdle

SpecDate == DateSpecInit /\ [][ProjectCall]_vars

\* the Monday (days since the epoch) of the Monday-to-Sunday week holding day d
MondayOf(d) == d - ((d + 3) % 7)

\* C8: for every reference instant and every weekday Monday..Friday (index 1..5) the
\* projected date is the Monday of the Monday-to-Sunday week containing the
\* reference date plus (index - 1) days; on a Sunday the week start is the preceding
\* Monday, and the projected date is never in the week after the reference date.
C8_ProjectedInReferenceWeek ==
    dOut.kind = "done" =>
        /\ dOut.weekStart = MondayOf(LocalDay(dNow, dOff))
        /\ dOut.date = MondayOf(LocalDay(dNow, dOff)) + (dDay - 1)

\* C9: whatever the server's local timezone, the dateTime submitted is the UTC
\* instant of the session's wall-clock time on the projected date in Asia/Kolkata.
C9_InstantIsKolkataWallClock ==
    dOut.kind = "done" =>
        dOut.dateTime =
            toISOString(dOut.date * MinPerDay + dTime[1] * 60 + dTime[2] - KolkataOffset)

----------------------------------------------------------------------------
(* One session record taken through the two validators and, when the sync
   validation accepts it, through the building of its calendar event. *)

validClassTypes ==
    << <<"L", "e", "c", "t", "u", "r", "e">>,
       <<"T", "u", "t", "o", "r", "i", "a", "l">>,
       <<"L", "a", "b", "o", "r", "a", "t", "o", "r", "y">>,
       <<"L", "a", "b">> >>

\* the required fields of validateClassData: the seven, and instructor
dataRequiredFields == requiredFields \o <<"instructor">>

\* a JSON array of records, as validateClassData receives it
DataArray(items) == [t |-> "array", items |-> items]

\* `Class ${index + 1}: ${msg}${arg}`
DataErr(index, msg, arg) == [index |-> index, msg |-> msg, arg |-> arg]

\* the errors validateClassData pushes for the item at position index
ItemDataErrors(cs, index) ==
    IF cs.t # "object" THEN <<DataErr(index, "Invalid class object", <<>>)>>
    ELSE LET bad(f) == Falsy(cs[f]) \/ ~IsString(cs[f])
             fields == SelectSeq(dataRequiredFields, bad)
         IN [i \in 1..Len(fields) |-> DataErr(index, "Missing or invalid", fields[i])]
            \o (IF ~Falsy(cs.day) /\ ~IsValidDay(cs.day)
                THEN <<DataErr(index, "Invalid day", cs.day.v)>> ELSE <<>>)
            \o (IF ~Falsy(cs.class_type)
                   /\ ~(IsString(cs.class_type)
                        /\ \E i \in 1..4 : validClassTypes[i] = cs.class_type.v)
                THEN <<DataErr(index, "Invalid class type", cs.class_type.v)>>
                ELSE <<>>)

RECURSIVE DataErrorsFrom(_, _)
DataErrorsFrom(items, i) ==
    IF i > Len(items) THEN <<>>
    ELSE ItemDataErrors(items[i], i) \o DataErrorsFrom(items, i + 1)

validateClassData(data) ==
    IF data.t # "array"
    THEN [kind |-> "return", isValid |-> FALSE,
          errors |-> <<"Data must be an array">>]
    ELSE LET errors == DataErrorsFrom(data.items, 1)
         IN [kind |-> "return", isValid |-> errors = <<>>, errors |-> errors]

\* sanitizedCourseCode, sanitizedCourseName, sanitizedLocation, sanitizedInstructor
SanitizedFields(cs) ==
    LET code == sanitizeString(cs.course_code)
        name == sanitizeString(cs.course_name)
        location == sanitizeString(cs.location)
        instructor == sanitizeString(IF Falsy(cs.instructor) THEN Str(<<>>)
                                     ELSE cs.instructor)
    IN IF \E r \in {code, name, location, instructor} : r.kind = "throw" THEN Throws
       ELSE [kind |-> "return", courseCode |-> code.value, courseName |-> name.value,
             location |-> location.value, instructor |-> instructor.value]

\* days since the epoch of the civil date y-m-d
DaysFromCivil(y, m, d) ==
    LET yy == IF m <= 2 THEN y - 1 ELSE y
        era == yy \div 400
        yoe == yy - era * 400
        doy == (153 * (IF m > 2 THEN m - 3 ELSE m + 9) + 2) \div 5 + d - 1
        doe == yoe * 365 + yoe \div 4 - yoe \div 100 + doy
    IN era * 146097 + doe - 719468

\* 'RRULE:FREQ=WEEKLY;UNTIL=20251130T235959Z', to the minute
recurrenceRule ==
    [freq |-> "WEEKLY", until |-> DaysFromCivil(2025, 11, 30) * MinPerDay + 23 * 60 + 59]

\* most weekly occurrences counted
MaxWeeks == 20

\* how many times an event starting at the instant start takes place under the rule
Occurrences(start) ==
    Cardinality({k \in 0..MaxWeeks : start + k * 7 * MinPerDay <= recurrenceRule.until})

\* values a time field may hold
ItemTimes ==
    {T0900AM, T0950AM, Str(<<"9", ":", "6", "0">>), Undefined,
     Arr(<<"9", ":", "0", "0", "A", "M">>)}

ItemDays == {Str(validDays[1]), Str(<<"S", "u", "n", "d", "a", "y">>), Undefined}

ItemCodes ==
    {Str(<<"C", "S">>), Str(<<" ", " ">>), Str(<<"<", " ", "A", ">">>), Undefined,
     Num(<<"7">>)}

ItemNames == {Str(<<"D", "S">>), Str(<<" ", ">", " ">>), Undefined}

ItemLocations == {Str(<<"R", "1">>), Str(<<"<">>), Null}

ItemTypes ==
    {Lecture, Str(<<"S", "e", "m", "i", "n", "a", "r">>), Str(<<"<", "b", ">">>),
     Undefined}

ItemInstructors == {Str(<<"S">>), Str(<<"<", "i", ">", " ">>), Undefined, Num(<<"7">>)}

ItemSessions ==
    {Session(d, st, et, code, name, type, loc, instr) :
        d \in ItemDays, st \in ItemTimes, et \in ItemTimes, code \in ItemCodes,
        name \in ItemNames, type \in ItemTypes, loc \in ItemLocations,
        instr \in ItemInstructors}

\* the clock at the sync: Monday 2025-08-18, Wednesday 2025-09-03 and Monday
\* 2025-12-01, 10:00
ItemInstants ==
    {DaysFromCivil(2025, 8, 18) * MinPerDay + 10 * 60,
     DaysFromCivil(2025, 9, 3) * MinPerDay + 10 * 60,
     DaysFromCivil(2025, 12, 1) * MinPerDay + 10 * 60}

ItemInit ==
    /\ item \in ItemSessions
    /\ itemNow = 0
    /\ validation = [kind |-> "none"] /\ dataCheck = [kind |-> "none"]
    /\ sanitized = [kind |-> "none"] /\ itemEvent = [kind |-> "none"]

\* add-events: validateClassSession(classSession)
ValidateSession ==
    /\ validation.kind = "none"
    /\ validation' = validateClassSession(item)
    /\ UNCHANGED <<item, itemNow, dataCheck, sanitized, itemEvent, syncVars, timeVars,
                   dateVars, rateVars, ipVars, editVars>>

\* parse-timetable: validateClassData of an array holding the record
ValidateData ==
    /\ dataCheck.kind = "none"
    /\ dataCheck' = validateClassData(DataArray(<<item>>))
    /\ UNCHANGED <<item, itemNow, validation, sanitized, itemEvent, syncVars, timeVars,
                   dateVars, rateVars, ipVars, editVars>>

\* add-events: the turn of the loop for a session the validation accepted, up to the
\* request body of the insert; the server runs in UTC
BuildItem(t) ==
    /\ validation.kind = "return" /\ validation.isValid
    /\ sanitized.kind = "none"
    /\ itemNow' = t
    /\ sanitized' = SanitizedFields(item)
    /\ itemEvent' = BuildEvent(item, currentWeekStart(t, 0), 0)
    /\ UNCHANGED <<item, validation, dataCheck, syncVars, timeVars, dateVars, rateVars, ipVars, editVars>>

ItemNext ==
    \/ ValidateSession
    \/ ValidateData
    \/ \E t \in ItemInstants : BuildItem(t)

ItemSpecInit ==
    ItemInit /\ SyncIdle /\ TimeIdle /\ DateIdle /\ RateIdle /\ IpIdle /\ EditIdle

SpecItem == ItemSpecInit /\ [][ItemNext]_vars

\* a time value parseTime returns as valid
ParsesValidly(x) == parseTime(x).kind = "return" /\ parseTime(x).isValid

OrderingError == Err("End time must be after start time", <<>>)

\* the error list of a validator's result holds e
HasError(r, e) == \E i \in 1..Len(r.errors) : r.errors[i] = e

\* C12: for every session whose start_time and end_time both parse validly and whose
\* end minute-of-day is at most its start minute-of-day, validateClassSession returns
\* isValid = false with 'End time must be after start time' among its errors; when
\* either time fails to parse, that error is not emitted.
C12_OrderingError ==
    validation.kind # "none" =>
        /\ (ParsesValidly(item.start_time) /\ ParsesValidly(item.end_time)
            /\ MinuteOfDay(parseTime(item.end_time))
                  <= MinuteOfDay(parseTime(item.start_time)))
              => /\ validation.kind = "return" /\ ~validation.isValid
                 /\ HasError(validation, OrderingError)
        /\ (validation.kind = "return"
            /\ ~(ParsesValidly(item.start_time) /\ ParsesValidly(item.end_time)))
              => ~HasError(validation, OrderingError)

\* a session that ends the minute it starts, every other field in order, has been
\* turned down with the ordering error alone
C12_Witness ==
    /\ item.start_time = T0950AM /\ item.end_time = T0950AM
    /\ validation.kind = "return" /\ validation.errors = <<OrderingError>>

\* the required fields of the session that are absent or not a string
MissingFields(cs) ==
    {i \in 1..Len(requiredFields) :
        cs[requiredFields[i]].t \in {"undefined", "null"}
        \/ ~IsString(cs[requiredFields[i]])}

\* C13: validateClassSession checks the seven required fields independently and emits
\* one error for each that is absent or not a string, so a record missing k required
\* fields yields at least k errors and is invalid.
C13_OneErrorPerMissingField ==
    (validation.kind # "none" /\ MissingFields(item) # {}) =>
        /\ validation.kind = "return" /\ ~validation.isValid
        /\ Len(validation.errors) >= Cardinality(MissingFields(item))
        /\ \A i \in MissingFields(item) :
              HasError(validation, Err("Missing or invalid", requiredFields[i]))

\* a string that is empty once its surrounding white space is dropped
EmptyAfterTrim(x) == IsString(x) /\ Trim(x.v) = <<>>

\* C14: a session whose course_code, course_name or location is empty after trimming
\* white space is rejected by the sync validation, so no calendar event is submitted
\* with an empty course code, course name or location.
C14_EmptyTextRejected ==
    (validation.kind = "return"
     /\ \E f \in {"course_code", "course_name", "location"} : EmptyAfterTrim(item[f]))
        => ~validation.isValid /\ itemEvent.kind = "none"

\* C16: a record is accepted by parse-timetable's validateClassData if and only if
\* it is accepted by add-events' validateClassSession.
C16_SameValidation ==
    (validation.kind # "none" /\ dataCheck.kind # "none") =>
        (dataCheck.isValid <=> (validation.kind = "return" /\ validation.isValid))

NoAngle(s) == \A i \in 1..Len(s) : s[i] \notin {"<", ">"}

\* no white space at either end
Trimmed(s) == s = <<>> \/ (~IsSpace(s[1]) /\ ~IsSpace(s[Len(s)]))

\* C17: in every calendar event submitted by the sync handler the course code and the
\* course name of the summary, the location, and the instructor of the description
\* hold no '<' or '>' and have no leading or trailing white space, whatever the input.
C17_TextFieldsClean ==
    itemEvent.kind = "return" =>
        /\ itemEvent.summary = sanitized.courseCode \o <<" ", "-", " ">> \o sanitized.courseName
        /\ itemEvent.location = sanitized.location
        /\ \A f \in {"courseCode", "courseName", "location", "instructor"} :
              NoAngle(sanitized[f]) /\ Trimmed(sanitized[f])

\* the instant an ISO date and time names
InstantOf(iso) == iso.day * MinPerDay + iso.hour * 60 + iso.minute

\* 'Events will repeat weekly for 15 weeks'
advertisedWeeks == 15

\* C18: every event created by a sync repeats weekly for 15 occurrences, as the sync
\* panel tells the user before syncing.
C18_FifteenOccurrences ==
    itemEvent.kind = "return" =>
        /\ recurrenceRule.freq = "WEEKLY"
        /\ Occurrences(InstantOf(itemEvent.start.dateTime)) = advertisedWeeks

\* C28: for every reference date, the recurrence end of a created event is not
\* earlier than the event's start.
C28_RecurrenceEndNotBeforeStart ==
    itemEvent.kind = "return" =>
        recurrenceRule.until >= InstantOf(itemEvent.start.dateTime)

\* C29: no text field (summary, description, location) of an event submitted to the
\* provider contains '<' or '>'.
C29_NoAngleInEventText ==
    itemEvent.kind = "return" =>
        /\ NoAngle(itemEvent.summary)
        /\ NoAngle(itemEvent.description)
        /\ NoAngle(itemEvent.location)

----------------------------------------------------------------------------
(* POST of parse-timetable and its rate limiter.  The check runs in the handler's
   first synchronous stretch, before its first await; requests it admits are then
   in flight together. *)

windowMs == 60 * 1000
maxRequests == 5

\* most parse-timetable requests in one run
MaxPosts == 7
\* most moves of the clock in one run
MaxTicks == 3

\* request.headers.get('x-forwarded-for') || get('x-real-ip') || 'unknown': the
\* requests of one client identity
Identities == {"203.0.113.7"}

Absent == [present |-> FALSE, count |-> 0, resetTime |-> 0]

\* 'Retry-After': '60'
retryAfterSeconds == 60

\* no denial since the last admission
NoDenial == 0 - 1

\* a slip: the comparison lets a sixth request through
checkRateLimit_OffByOne(userData, t) ==
    IF ~userData.present \/ t > userData.resetTime
    THEN [allowed |-> TRUE, remaining |-> maxRequests - 1,
          entry |-> [present |-> TRUE, count |-> 1, resetTime |-> t + windowMs]]
    ELSE IF userData.count > maxRequests
    THEN [allowed |-> FALSE, remaining |-> 0, entry |-> userData]
    ELSE [allowed |-> TRUE, remaining |-> maxRequests - (userData.count + 1),
          entry |-> [userData EXCEPT !.count = userData.count + 1]]

\* checkRateLimit for the entry found under the ip at time t: the answer and the
\* entry the map then holds
checkRateLimit(userData, t) ==
    IF ~userData.present \/ t > userData.resetTime
    THEN [allowed |-> TRUE, remaining |-> maxRequests - 1,
          entry |-> [present |-> TRUE, count |-> 1, resetTime |-> t + windowMs]]
    ELSE IF userData.count >= maxRequests
    THEN [allowed |-> FALSE, remaining |-> 0, entry |-> userData]
    ELSE [allowed |-> TRUE, remaining |-> maxRequests - (userData.count + 1),
          entry |-> [userData EXCEPT !.count = userData.count + 1]]

RateInit ==
    /\ clock = 0 /\ ticks = 0
    /\ rateLimitMap = [k \in Identities |-> Absent]
    /\ inflight = 0
    /\ lastReq = [kind |-> "none"]
    /\ allowedAt = [k \in Identities |-> <<>>]
    /\ opened = [k \in Identities |-> {}]
    /\ preq = 0
    /\ deniedSince = [k \in Identities |-> NoDenial]

\* a request arrives and is checked; a denied one is answered 429 at once
PostArrive(k) ==
    /\ preq < MaxPosts
    /\ preq' = preq + 1
    /\ LET rateLimit == checkRateLimit(rateLimitMap[k], clock)
       IN /\ rateLimitMap' = [rateLimitMap EXCEPT ![k] = rateLimit.entry]
          /\ lastReq' = [kind |-> "checked", key |-> k, at |-> clock,
                         found |-> rateLimitMap[k],
                         status |-> IF rateLimit.allowed THEN 0 ELSE 429,
                         retryAfter |-> IF rateLimit.allowed THEN 0 ELSE retryAfterSeconds,
                         deniedSince |-> deniedSince[k]]
          /\ inflight' = IF rateLimit.allowed THEN inflight + 1 ELSE inflight
          /\ allowedAt' = IF rateLimit.allowed
                          THEN [allowedAt EXCEPT ![k] = Append(@, clock)]
                          ELSE allowedAt
          /\ opened' = IF rateLimit.allowed /\ rateLimit.entry.count = 1
                       THEN [opened EXCEPT ![k] = @ \cup {clock}]
                       ELSE opened
          /\ deniedSince' = IF rateLimit.allowed
                            THEN [deniedSince EXCEPT ![k] = NoDenial]
                            ELSE IF deniedSince[k] = NoDenial
                            THEN [deniedSince EXCEPT ![k] = clock]
                            ELSE deniedSince
    /\ UNCHANGED <<clock, ticks, syncVars, timeVars, dateVars, itemVars, ipVars, editVars>>

\* an admitted request is answered (200, 400 or 500)
PostComplete ==
    /\ inflight > 0
    /\ inflight' = inflight - 1
    /\ UNCHANGED <<clock, ticks, rateLimitMap, lastReq, allowedAt, opened, preq, deniedSince,
                   syncVars, timeVars, dateVars, itemVars, ipVars, editVars>>

\* time passes: a millisecond, a millisecond less than the window, or the window
Tick(d) ==
    /\ ticks < MaxTicks
    /\ ticks' = ticks + 1
    /\ clock' = clock + d
    /\ UNCHANGED <<rateLimitMap, inflight, lastReq, allowedAt, opened, preq, deniedSince,
                   syncVars, timeVars, dateVars, itemVars, ipVars, editVars>>

RateNext ==
    \/ \E k \in Identities : PostArrive(k)
    \/ PostComplete
    \/ \E d \in {1, windowMs - 1, windowMs} : Tick(d)

RateSpecInit == RateInit /\ SyncIdle /\ TimeIdle /\ DateIdle /\ ItemIdle /\ IpIdle /\ EditIdle

SpecRate == RateSpecInit /\ [][RateNext]_vars

\* the requests of identity k admitted in the window opened at t0
AdmittedInWindow(k, t0) ==
    {i \in 1..Len(allowedAt[k]) : t0 <= allowedAt[k][i] /\ allowedAt[k][i] <= t0 + windowMs}

\* C6: under any interleaving of concurrent requests of one identity, at most 5
\* requests are admitted inside one 60-second window of the limiter, the stored count
\* never exceeds 5, and a request that finds the count at 5 before the window's reset
\* time is denied with status 429.
C6_AtMostFivePerWindow ==
    /\ \A k \in Identities :
          /\ rateLimitMap[k].count <= maxRequests
          /\ \A t0 \in opened[k] : Cardinality(AdmittedInWindow(k, t0)) <= maxRequests
    /\ lastReq.kind = "checked" =>
          ((lastReq.found.present /\ lastReq.found.count >= maxRequests
            /\ lastReq.at <= lastReq.found.resetTime)
           => lastReq.status = 429)

\* a sixth request of one identity has been denied while five admitted ones of the
\* same window are still in flight
C6_Witness ==
    /\ lastReq.kind = "checked" /\ lastReq.status = 429
    /\ inflight = maxRequests
    /\ Len(allowedAt[lastReq.key]) = maxRequests

\* C19: a client denied by the parse-timetable rate limiter (429, Retry-After: 60) that
\* retries 60 seconds or more after that denial is allowed: a denial never lasts
\* longer than the advertised delay, and denied requests do not extend the window.
C19_RetryAfterHonoured ==
    lastReq.kind = "checked" =>
        /\ (lastReq.deniedSince # NoDenial
            /\ lastReq.at >= lastReq.deniedSince + retryAfterSeconds * 1000)
              => lastReq.status = 0
        /\ lastReq.status = 429 => rateLimitMap[lastReq.key] = lastReq.found

----------------------------------------------------------------------------
(* getUserIp: the client identity read from the forwarding headers *)

\* the headers read, in the order of the || chain
forwardingHeaders ==
    <<"x-forwarded-for", "x-real-ip", "cf-connecting-ip", "x-client-ip",
      "x-cluster-client-ip", "x-forwarded", "forwarded-for", "forwarded">>

defaultIp == Str(<<"0", ".", "0", ".", "0", ".", "0">>)

\* a || b || ...: the first truthy operand, or the last operand when none is
FirstTruthy(values) ==
    LET truthy == {i \in 1..Len(values) : ~Falsy(values[i])}
    IN IF truthy = {} THEN values[Len(values)]
       ELSE values[CHOOSE i \in truthy : \A j \in truthy : i <= j]

\* a slip: the first element is returned as it stands
getUserIp_NoTrim(h) ==
    LET value == FirstTruthy(h)
    IN IF Falsy(value) THEN defaultIp ELSE Str(SplitOn(value.v, ",")[1])

\* ip ? ip.split(',')[0].trim() : '0.0.0.0'
getUserIp(h) ==
    LET value == FirstTruthy(h)
    IN IF Falsy(value) THEN defaultIp ELSE Str(Trim(SplitOn(value.v, ",")[1]))

\* most headers a request carries
MaxHeaders == 2

\* values a header may carry
HeaderValues ==
    {Str(<<>>), Str(<<" ">>), Str(<<"a">>), Str(<<" ", "a", " ", ",", "b">>),
     Str(<<",", "a">>), defaultIp}

\* the headers of a request: headers.get gives null for an absent one
HeaderLists ==
    UNION {{[i \in 1..Len(forwardingHeaders) |-> IF i \in S THEN f[i] ELSE Null] :
                f \in [S -> HeaderValues]} :
           S \in {T \in SUBSET (1..Len(forwardingHeaders)) :
                     Cardinality(T) <= MaxHeaders}}

IpInit == headersList \in HeaderLists /\ userIp = Undefined

GetUserIpCall ==
    /\ userIp = Undefined
    /\ userIp' = getUserIp(headersList)
    /\ UNCHANGED <<headersList, syncVars, timeVars, dateVars, rateVars, itemVars,
                   editVars>>

IpSpecInit ==
    IpInit /\ SyncIdle /\ TimeIdle /\ DateIdle /\ RateIdle /\ ItemIdle /\ EditIdle

SpecIp == IpSpecInit /\ [][GetUserIpCall]_vars

\* the headers of the request that carry a non-empty value
NonEmptyHeaders ==
    {i \in 1..Len(headersList) : headersList[i].t = "string" /\ headersList[i].v # <<>>}

\* out is text with the white space at its two ends taken away
IsTrimOf(out, text) ==
    \E a \in 1..(Len(text) + 1), b \in 0..Len(text) :
        /\ out = SubSeq(text, a, b)
        /\ \A j \in 1..(a - 1) : IsSpace(text[j])
        /\ \A j \in (b + 1)..Len(text) : IsSpace(text[j])
        /\ out = <<>> \/ (~IsSpace(out[1]) /\ ~IsSpace(out[Len(out)]))

\* the text of h before its first comma
FirstElement(h) ==
    LET commas == {i \in 1..Len(h) : h[i] = ","}
    IN IF commas = {} THEN h
       ELSE SubSeq(h, 1, (CHOOSE i \in commas : \A j \in commas : i <= j) - 1)

\* C23 as amended: getUserIp returns the first comma-separated element, trimmed, of
\* the first non-empty header in the priority order, and '0.0.0.0' when none of the
\* headers has a non-empty value.
C23_FirstNonEmptyHeader ==
    userIp # Undefined =>
        /\ userIp.t = "string"
        /\ IF NonEmptyHeaders = {} THEN userIp = defaultIp
           ELSE LET first == CHOOSE i \in NonEmptyHeaders :
                                 \A j \in NonEmptyHeaders : i <= j
                IN IsTrimOf(userIp.v, FirstElement(headersList[first].v))

\* C23 as stated: ... and returns '0.0.0.0' exactly when none of these headers has a
\* non-empty value.
C23_DefaultExactlyWhenNone ==
    userIp # Undefined =>
        /\ C23_FirstNonEmptyHeader
        /\ userIp = defaultIp <=> NonEmptyHeaders = {}

\* x-forwarded-for is absent, x-real-ip carries ' a ,b' and a later header carries
\* another value: the answer is 'a'
C23_Witness ==
    /\ headersList[1] = Null
    /\ headersList[2] = Str(<<" ", "a", " ", ",", "b">>)
    /\ \E i \in 3..Len(headersList) : headersList[i] = defaultIp
    /\ userIp = Str(<<"a">>)

----------------------------------------------------------------------------
(* The page and its timetable editor.  A handler runs to its end, and the effects
   its state change triggers run with it, before the next click is taken. *)

\* the day columns of the editor
days ==
    << <<"M", "o", "n", "d", "a", "y">>,
       <<"T", "u", "e", "s", "d", "a", "y">>,
       <<"W", "e", "d", "n", "e", "s", "d", "a", "y">>,
       <<"T", "h", "u", "r", "s", "d", "a", "y">>,
       <<"F", "r", "i", "d", "a", "y">> >>

\* input.trim().replace(/[<>]/g, '')
sanitizeInput(input) == SelectSeq(Trim(input), LAMBDA c : c \notin {"<", ">"})

\* the keys of the errors object the editor's validateClassData returns
validateClassDataForm(classData) ==
    LET empty(f) == Trim(classData[f].v) = <<>>
        st == classData.start_time
        et == classData.end_time
        same == /\ st.v # <<>> /\ et.v # <<>>
                /\ validateTimeFormat(st) /\ validateTimeFormat(et)
                /\ ToLowerCase(st.v) = ToLowerCase(et.v)
    IN {f \in {"course_code", "course_name", "location"} : empty(f)}
       \cup (IF empty("start_time") \/ ~validateTimeFormat(st)
             THEN {"start_time"} ELSE {})
       \cup (IF empty("end_time") \/ ~validateTimeFormat(et) \/ same
             THEN {"end_time"} ELSE {})

\* sanitizedData of handleSave
SanitizedEdit(ed) ==
    [ed EXCEPT !.course_code = Str(sanitizeInput(ed.course_code.v)),
               !.course_name = Str(sanitizeInput(ed.course_name.v)),
               !.location = Str(sanitizeInput(ed.location.v)),
               !.instructor = Str(sanitizeInput(IF Falsy(ed.instructor) THEN <<>>
                                                ELSE ed.instructor.v)),
               !.start_time = Str(Trim(ed.start_time.v)),
               !.end_time = Str(Trim(ed.end_time.v))]

\* classToAdd of handleAdd
ClassToAdd(day, form) ==
    Session(Str(day), Str(Trim(form.start_time.v)), Str(Trim(form.end_time.v)),
            Str(sanitizeInput(form.course_code.v)),
            Str(sanitizeInput(form.course_name.v)),
            IF Falsy(form.class_type) THEN Lecture ELSE form.class_type,
            Str(sanitizeInput(form.location.v)),
            Str(sanitizeInput(form.instructor.v)))

\* JSON.stringify of the list, and JSON.parse of the saved text
JSONStringify(items) == [t |-> "json", v |-> items]
JSONParse(text) == text.v

\* data.filter(s => s.day === day): the positions in data of the day's sessions
DayClasses(rows, day) ==
    SelectSeq([i \in 1..Len(rows) |-> i], LAMBDA i : rows[i].day.v = day)

\* new Date(`2000-01-01 ${start_time}`).getTime(), in minutes after midnight
StartKey(cs) == MinuteOfDay(parseTime(cs.start_time))

\* the day's cards in the order shown: classes.sort by start time where the engine
\* reads the date text; where it does not, every comparison is NaN and the order
\* is kept
Cards(rows, day) ==
    LET own == DayClasses(rows, day)
        before(p, q) ==
            \/ StartKey(rows[p]) < StartKey(rows[q])
            \/ StartKey(rows[p]) = StartKey(rows[q]) /\ p < q
        rank(p) == Cardinality({j \in 1..Len(own) : before(own[j], p)}) + 1
    IN IF dateParses
       THEN [r \in 1..Len(own) |-> own[CHOOSE j \in 1..Len(own) : rank(own[j]) = r]]
       ELSE own

\* the list without its element at position p
RemoveAt(rows, p) == SubSeq(rows, 1, p - 1) \o SubSeq(rows, p + 1, Len(rows))

\* the first effect: a list that is not empty is saved
SaveEffect(rows, stored) == IF Len(rows) > 0 THEN JSONStringify(rows) ELSE stored

\* the second effect, run at mount: a saved list that is not empty is loaded
LoadEffect(rows, stored) ==
    IF stored # Null /\ Len(JSONParse(stored)) > 0 THEN JSONParse(stored) ELSE rows

\* onDataChange(newData), and the first effect that follows it
OnDataChange(newData) ==
    /\ timetableData' = DataArray(newData)
    /\ localStorage' = SaveEffect(newData, localStorage)

ClearEditing ==
    /\ editingClass' = Null /\ editingData' = Null /\ validationErrors' = {}

CardKey(day, index) == [t |-> "string", day |-> day, index |-> index]

\* most sessions in the timetable, and most user actions in one run
MaxRows == 3
MaxClicks == 4

Click == clicks < MaxClicks /\ clicks' = clicks + 1

T24(h1, h2, m1, m2) == Str(<<h1, h2, ":", m1, m2>>)

\* sessions an extraction may hold: three on Monday, one on Tuesday
Extracted ==
    <<Session(Str(days[1]), T24("0", "9", "0", "0"), T24("0", "9", "5", "0"),
              Str(<<"C", "S">>), Str(<<"D", "S">>), Lecture, Str(<<"R", "1">>),
              Str(<<"S">>)),
      Session(Str(days[1]), T24("1", "0", "0", "0"), T24("1", "0", "5", "0"),
              Str(<<"M", "A">>), Str(<<"L", "A">>), Lecture, Str(<<"R", "2">>),
              Str(<<"T">>)),
      Session(Str(days[1]), T24("1", "1", "0", "0"), T24("1", "1", "5", "0"),
              Str(<<"P", "H">>), Str(<<"Q", "M">>), Lab, Str(<<"R", "3">>),
              Str(<<"U">>)),
      Session(Str(days[2]), T1400, T1530, Str(<<"B", "I">>), Str(<<"G", "E">>),
              Lecture, Str(<<"R", "4">>), Str(<<"V">>))>>

\* result.data of a successful upload: lists the route's validateClassData accepts
Extractions ==
    {e \in {<<>>, <<Extracted[1]>>, <<Extracted[2], Extracted[1]>>,
            <<Extracted[1], Extracted[2], Extracted[3]>>,
            <<Extracted[4], Extracted[1], Extracted[2]>>} :
        Len(e) <= MaxRows /\ validateClassData(DataArray(e)).isValid}

\* what the user may have typed into a time field
TypedTimes ==
    {T24("0", "8", "0", "0"), T24("1", "2", "0", "0"),
     Str(<<"1", "2", ":", "0", "0", " ">>)}

\* the add form at the click on 'Add Class'
Forms ==
    {[start_time |-> st, end_time |-> et, course_code |-> Str(<<"E", "E">>),
      course_name |-> Str(<<"E", "M">>), class_type |-> Lecture,
      location |-> Str(<<"R", "9">>), instructor |-> Str(<<>>)] :
        st \in TypedTimes, et \in TypedTimes}

\* the browser at the start: no timetable on the page; the storage empty or
\* holding the list an earlier visit saved
EditInit ==
    /\ timetableData = Null
    /\ localStorage \in {Null, JSONStringify(<<Extracted[4]>>)}
    /\ editingClass = Null /\ editingData = Null /\ validationErrors = {}
    /\ dateParses \in BOOLEAN
    /\ clicks = 0

\* handleFileUpload with a successful answer: setTimetableData(result.data), the
\* editor mounts and its two effects run
Upload(extraction) ==
    /\ Click
    /\ timetableData = Null
    /\ LET saved == SaveEffect(extraction, localStorage)
       IN OnDataChange(LoadEffect(extraction, saved))
    /\ ClearEditing
    /\ UNCHANGED <<dateParses, syncVars, timeVars, dateVars, rateVars, itemVars, ipVars>>

\* 'Upload Another Timetable': the editor is unmounted
handleRetry ==
    /\ Click
    /\ timetableData # Null
    /\ timetableData' = Null
    /\ ClearEditing
    /\ UNCHANGED <<localStorage, dateParses, syncVars, timeVars, dateVars, rateVars,
                   itemVars, ipVars>>

\* 'Edit' on the card shown at position index of the day
handleEdit(day, index) ==
    /\ Click
    /\ timetableData # Null
    /\ index \in 1..Len(Cards(timetableData.items, day))
    /\ editingClass # CardKey(day, index)
    /\ editingClass' = CardKey(day, index)
    /\ editingData' = timetableData.items[Cards(timetableData.items, day)[index]]
    /\ validationErrors' = {}
    /\ UNCHANGED <<timetableData, localStorage, dateParses, syncVars, timeVars,
                   dateVars, rateVars, itemVars, ipVars>>

\* the card that shows the edit form
EditingCardShown ==
    /\ timetableData # Null /\ editingClass # Null /\ editingData # Null
    /\ editingClass.index \in 1..Len(Cards(timetableData.items, editingClass.day))

\* typing into a time field of the edit form
setEditingData(field, value) ==
    /\ Click
    /\ EditingCardShown
    /\ editingData[field] # value
    /\ editingData' = [editingData EXCEPT ![field] = value]
    /\ UNCHANGED <<timetableData, localStorage, editingClass, validationErrors,
                   dateParses, syncVars, timeVars, dateVars, rateVars, itemVars, ipVars>>

\* 'Save Changes' on the card that shows the edit form
handleSave(day, index) ==
    /\ Click
    /\ EditingCardShown
    /\ editingClass = CardKey(day, index)
    /\ LET rows == timetableData.items
           errors == validateClassDataForm(editingData)
           globalIndex == DayClasses(rows, day)[index]
       IN IF errors # {}
          THEN /\ validationErrors' = errors
               /\ UNCHANGED <<timetableData, localStorage, editingClass, editingData>>
          ELSE /\ OnDataChange([rows EXCEPT ![globalIndex] = SanitizedEdit(editingData)])
               /\ ClearEditing
    /\ UNCHANGED <<dateParses, syncVars, timeVars, dateVars, rateVars, itemVars, ipVars>>

\* 'Cancel' on the card that shows the edit form
handleCancel ==
    /\ Click
    /\ EditingCardShown
    /\ ClearEditing
    /\ UNCHANGED <<timetableData, localStorage, dateParses, syncVars, timeVars,
                   dateVars, rateVars, itemVars, ipVars>>

\* 'Delete' on the card shown at position index of the day
handleDelete(day, index) ==
    /\ Click
    /\ timetableData # Null
    /\ index \in 1..Len(Cards(timetableData.items, day))
    /\ editingClass # CardKey(day, index)
    /\ LET rows == timetableData.items
           globalIndex == DayClasses(rows, day)[index]
       IN OnDataChange(RemoveAt(rows, globalIndex))
    /\ UNCHANGED <<editingClass, editingData, validationErrors, dateParses, syncVars,
                   timeVars, dateVars, rateVars, itemVars, ipVars>>

\* 'Add Class' in the add form of the day
handleAdd(day, form) ==
    /\ Click
    /\ timetableData # Null
    /\ Len(timetableData.items) < MaxRows
    /\ LET errors == validateClassDataForm(form)
       IN IF errors # {}
          THEN validationErrors' = errors /\ UNCHANGED <<timetableData, localStorage>>
          ELSE /\ OnDataChange(Append(timetableData.items, ClassToAdd(day, form)))
               /\ validationErrors' = {}
    /\ UNCHANGED <<editingClass, editingData, dateParses, syncVars, timeVars, dateVars,
                   rateVars, itemVars, ipVars>>

\* the days the user works on
EditDays == {days[1], days[2]}

EditNext ==
    \/ \E e \in Extractions : Upload(e)
    \/ handleRetry
    \/ \E d \in EditDays, i \in 1..MaxRows : handleEdit(d, i)
    \/ \E f \in {"start_time", "end_time"}, v \in TypedTimes : setEditingData(f, v)
    \/ \E d \in EditDays, i \in 1..MaxRows : handleSave(d, i)
    \/ handleCancel
    \/ \E d \in EditDays, i \in 1..MaxRows : handleDelete(d, i)
    \/ \E d \in EditDays, f \in Forms : handleAdd(d, f)

EditSpecInit ==
    EditInit /\ SyncIdle /\ TimeIdle /\ DateIdle /\ RateIdle /\ ItemIdle /\ IpIdle

SpecEdit == EditSpecInit /\ [][EditNext]_vars

\* C22: after any sequence of 'Add Class' and 'Save Changes' actions in the editor,
\* every stored session has a start time and an end time that both parse validly,
\* whose raw strings are not identical ignoring case, and whose end is later than
\* its start.
C22_StoredTimesOrdered ==
    timetableData # Null =>
        \A i \in 1..Len(timetableData.items) :
            LET cs == timetableData.items[i]
            IN /\ ParsesValidly(cs.start_time) /\ ParsesValidly(cs.end_time)
               /\ ToLowerCase(cs.start_time.v) # ToLowerCase(cs.end_time.v)
               /\ MinuteOfDay(parseTime(cs.end_time))
                     > MinuteOfDay(parseTime(cs.start_time))

\* C25: clicking Delete on a displayed class card removes exactly that session's
\* entry from the timetable, whatever order the sessions are stored in.
C25_DeleteRemovesClicked ==
    [][\A d \in EditDays, i \in 1..MaxRows :
          handleDelete(d, i) =>
              timetableData'.items
                  = RemoveAt(timetableData.items, Cards(timetableData.items, d)[i])]_vars

\* no two sessions of the list have the same course code
DistinctCodes(rows) ==
    \A i, j \in 1..Len(rows) : rows[i].course_code = rows[j].course_code => i = j

\* C26: clicking Save Changes replaces exactly the session on which Edit was
\* clicked, under any interleaving of Delete and Add Class clicks on other cards of
\* the same day.  Stated for an engine that shows the cards in stored order and for
\* lists of distinct course codes, where the session on which Edit was clicked is
\* the one that has the course code of the copy being edited.
C26_SaveReplacesEdited ==
    [][\A d \in EditDays, i \in 1..MaxRows :
          (/\ handleSave(d, i)
           /\ ~dateParses
           /\ DistinctCodes(timetableData.items)
           /\ validateClassDataForm(editingData) = {})
          => \E p \in 1..Len(timetableData.items) :
                /\ timetableData.items[p].course_code = editingData.course_code
                /\ timetableData'.items
                      = [timetableData.items EXCEPT ![p] = SanitizedEdit(editingData)]]_vars

\* C27: the timetable displayed right after a successful upload is exactly the data
\* extracted from that upload, including when the extraction is an empty list;
\* local-storage data from an earlier session never replaces it.
C27_UploadShowsExtraction ==
    [][\A e \in Extractions : Upload(e) => timetableData' = DataArray(e)]_vars

====
